---- MODULE Spec2Model ----
(***************************************************************************)
(* Model of the aio command line tool (src/cmd/aio/main.go, the multi-file *)
(* variant that starts at line 328): the batch scheduler of main, the      *)
(* per-file job processFile, and the name/algorithm resolution helpers.    *)
(*                                                                         *)
(* File names, suffixes and extensions are sequences of one-character      *)
(* strings, so that the string functions the code calls (filepath.Ext,     *)
(* strings.HasSuffix, strings.SplitN, strings.Join, path.Split) are        *)
(* computed character by character.  Algorithm names are atoms.            *)
(*                                                                         *)
(* The option values *algorithm and *suffix are package-level variables    *)
(* that every worker goroutine reads and writes without synchronisation;   *)
(* they are modelled as shared variables accessed one statement at a time. *)
(***************************************************************************)
EXTENDS Integers, Sequences, FiniteSets, TLC

VARIABLES
    cfg,        \* the parsed flags: cores, level, verbose, decompress, test, stdout, force, keep,
                \* recursive, algoSet, sufSet
    args,       \* files := flag.Args() (or <<"-">>)
    algorithm,  \* *algorithm, shared by all goroutines
    suffix,     \* *suffix, shared by all goroutines
    fs,         \* the file system: path -> Dir or a file content
    mainPc,     \* main: "validate" | "usage" (exit) | "loop" (spawning / waiting) | "exit0" | "exit1"
    next,       \* main: index of the next argument of the for loop
    wg,         \* sync.WaitGroup counter
    sem,        \* len(sem): slots of the buffered channel in use
    hasErrors,  \* the shared failure flag
    mu,         \* main's sync.Mutex mu: 0 when free, else the worker that holds it
    pc,         \* per worker goroutine: its position
    inPath,     \* per worker: inFilePath of the running processFile
    outPath,    \* per worker: outFilePath of the running processFile
    todo,       \* per worker: entries filepath.Walk has still to visit
    err,        \* per worker: the error processFile returns ("nil" = none)
    algoUsed,   \* per worker: the codec branch the job's switch selected
    src,        \* per worker: what the producer goroutine opened
    written,    \* per worker: io.Copy of the job returned without error
    outcome,    \* history: <<path, "ok" or "err">> of every finished job / argument
    stdinRead,  \* history: some job started reading standard input
    touched,    \* history, per worker: a system call was made on the input of the current job
    jobsOf,     \* history, per worker: the paths it has called processFile with, in order
    stream,     \* per worker: the pipe, the producer goroutine and the copy loop of its job
    bytes,      \* the bytes of the files whose content is followed: path -> sequence of bytes
    log,        \* the statistics lines written to os.Stderr
    trip,       \* history: which invocation this is, the bytes its input began with,
                \* and whether an I/O operation has failed
    logMu       \* per worker: logMu of its current processFile call is locked (line 640)

vars == <<cfg, args, algorithm, suffix, fs, mainPc, next, wg, sem, hasErrors,
          pc, inPath, outPath, todo, err, algoUsed, src, written, outcome, stdinRead,
          touched,
          jobsOf,
          mu,
          stream, bytes, log, trip,
          logMu>>

-----------------------------------------------------------------------------
(* Bounds of the model *)

MaxArgs == 2        \* at most this many command line arguments
MaxCores == 2       \* -cores ranges over 1..MaxCores
MaxNameLen == 5     \* resolver runs: input names of up to this many characters
MaxSufLen == 3      \* resolver runs: -S suffixes of up to this many characters
MaxBytes == 2       \* stream runs: input files of up to this many bytes

-----------------------------------------------------------------------------
(* Strings *)

Dot == "."
Slash == "/"
Stdin == <<"-">>

\* bytes in ascending order, as sort.Strings compares them
Chars == <<"-", ".", "/", "G", "Z", "d", "g", "x", "z">>

RankOf(c) == CHOOSE k \in 1..Len(Chars) : Chars[k] = c

RECURSIVE StrLess(_, _)
StrLess(a, b) ==
    IF a = <<>> THEN b # <<>>
    ELSE IF b = <<>> THEN FALSE
    ELSE IF Head(a) = Head(b) THEN StrLess(Tail(a), Tail(b))
    ELSE RankOf(Head(a)) < RankOf(Head(b))

RECURSIVE SortStrings(_)
SortStrings(S) ==
    IF S = {} THEN <<>>
    ELSE LET m == CHOOSE x \in S : \A y \in S : y = x \/ StrLess(x, y)
         IN  <<m>> \o SortStrings(S \ {m})

LowerChar(c) ==
    CASE c = "G" -> "g"
      [] c = "I" -> "i"
      [] c = "P" -> "p"
      [] c = "X" -> "x"
      [] c = "Z" -> "z"
      [] OTHER   -> c

ToLower(s) == [k \in 1..Len(s) |-> LowerChar(s[k])]

HasSuffix(s, suf) ==
    /\ Len(s) >= Len(suf)
    /\ SubSeq(s, Len(s) - Len(suf) + 1, Len(s)) = suf

\* index of the last c in s, 0 when there is none
RECURSIVE LastIndexFrom(_, _, _)
LastIndexFrom(s, c, k) ==
    IF k < 1 THEN 0 ELSE IF s[k] = c THEN k ELSE LastIndexFrom(s, c, k - 1)

\* index of the first c in s, 0 when there is none
RECURSIVE IndexFrom(_, _, _)
IndexFrom(s, c, k) ==
    IF k > Len(s) THEN 0 ELSE IF s[k] = c THEN k ELSE IndexFrom(s, c, k + 1)

\* filepath.Ext: the suffix beginning at the final dot in the final element
RECURSIVE ExtFrom(_, _)
ExtFrom(p, k) ==
    IF k < 1 \/ p[k] = Slash THEN <<>>
    ELSE IF p[k] = Dot THEN SubSeq(p, k, Len(p))
    ELSE ExtFrom(p, k - 1)

FilepathExt(p) == ExtFrom(p, Len(p))

\* path.Split: everything up to and including the last slash, and the rest
PathSplit(p) ==
    LET k == LastIndexFrom(p, Slash, Len(p))
    IN  [dir |-> SubSeq(p, 1, k), file |-> SubSeq(p, k + 1, Len(p))]

\* strings.SplitN(s, ".", n) for n >= 0: at most n pieces, the last one unsplit
RECURSIVE SplitN(_, _)
SplitN(s, n) ==
    IF n = 0 THEN <<>>
    ELSE LET m == IndexFrom(s, Dot, 1)
         IN  IF n = 1 \/ m = 0 THEN <<s>>
             ELSE <<SubSeq(s, 1, m - 1)>> \o SplitN(SubSeq(s, m + 1, Len(s)), n - 1)

\* strings.Join(parts, ".")
RECURSIVE Join(_)
Join(parts) ==
    IF parts = <<>> THEN <<>>
    ELSE IF Len(parts) = 1 THEN parts[1]
    ELSE parts[1] \o <<Dot>> \o Join(Tail(parts))

-----------------------------------------------------------------------------
(* Algorithms, suffixes, extensions *)

Algorithms == {"brotli", "gzip", "zlib", "bzip2", "s2", "zstd", "lzma", "xz", "lz4"}

\* the values of -algorithm, as the strings the user typed
Spelling(a) ==
    CASE a = "brotli" -> <<"b", "r", "o", "t", "l", "i">>
      [] a = "gzip"   -> <<"g", "z", "i", "p">>
      [] a = "zlib"   -> <<"z", "l", "i", "b">>
      [] a = "bzip2"  -> <<"b", "z", "i", "p", "2">>
      [] a = "s2"     -> <<"s", "2">>
      [] a = "zstd"   -> <<"z", "s", "t", "d">>
      [] a = "lzma"   -> <<"l", "z", "m", "a">>
      [] a = "xz"     -> <<"x", "z">>
      [] a = "lz4"    -> <<"l", "z", "4">>
      [] a = "GZIP"   -> <<"G", "Z", "I", "P">>
      [] a = "Xz"     -> <<"X", "z">>
      [] a = "zip"    -> <<"z", "i", "p">>

\* validAlgorithms[strings.ToLower(*algorithm)] of main
validAlgorithms == {Spelling(a) : a \in Algorithms}

ValidAlgorithm(a) == ToLower(Spelling(a)) \in validAlgorithms

\* switch *algorithm { case "gzip": ... default: // brotli }: the branch that
\* the three codec switches of processFile take for the value a
CodecBranch(a) == IF a \in Algorithms \ {"brotli"} THEN a ELSE "brotli"

getDefaultSuffix(algo) ==
    CASE algo = "brotli" -> <<"b", "r">>
      [] algo = "zlib"   -> <<"z", "l", "i", "b">>
      [] algo = "bzip2"  -> <<"b", "z", "2">>
      [] algo = "s2"     -> <<"s", "2">>
      [] algo = "zstd"   -> <<"z", "s", "t">>
      [] algo = "lzma"   -> <<"l", "z", "m", "a">>
      [] algo = "xz"     -> <<"x", "z">>
      [] algo = "lz4"    -> <<"l", "z", "4">>
      [] OTHER           -> <<"g", "z">>

\* [err |-> TRUE] or [err |-> FALSE, algo |-> the algorithm of the extension]
getAlgorithmFromExtension(filename) ==
    LET ext == ToLower(FilepathExt(filename))
        e   == Tail(ext)
    IN  IF ext = <<>> THEN [err |-> TRUE, algo |-> "none"]
        ELSE CASE e = <<"g", "z">>           -> [err |-> FALSE, algo |-> "gzip"]
               [] e = <<"z", "l", "i", "b">> -> [err |-> FALSE, algo |-> "zlib"]
               [] e = <<"b", "z", "2">>      -> [err |-> FALSE, algo |-> "bzip2"]
               [] e = <<"s", "2">>           -> [err |-> FALSE, algo |-> "s2"]
               [] e = <<"z", "s", "t">>      -> [err |-> FALSE, algo |-> "zstd"]
               [] e = <<"l", "z", "m", "a">> -> [err |-> FALSE, algo |-> "lzma"]
               [] e = <<"x", "z">>           -> [err |-> FALSE, algo |-> "xz"]
               [] e = <<"l", "z", "4">>      -> [err |-> FALSE, algo |-> "lz4"]
               [] e = <<"b", "r">>           -> [err |-> FALSE, algo |-> "brotli"]
               [] OTHER                      -> [err |-> TRUE, algo |-> "none"]

\* The output name of a job that writes to a file (lines 598-618):
\* [err |-> "nil", path |-> outFilePath] or [err |-> the error, path |-> <<>>]
OutputName(inFilePath, suf, decompress) ==
    IF suf = <<>> THEN [err |-> "emptysuffix", path |-> <<>>]
    ELSE IF decompress
    THEN LET sp   == PathSplit(inFilePath)
             dsuf == <<Dot>> \o suf
         IN  IF HasSuffix(sp.file, dsuf)
             THEN IF Len(sp.file) > Len(dsuf)
                  THEN LET nstr == SplitN(sp.file, Len(sp.file))
                           estr == Join(SubSeq(nstr, 1, Len(nstr) - 1))
                       IN  [err |-> "nil", path |-> sp.dir \o estr]
                  ELSE [err |-> "cantstrip", path |-> <<>>]
             ELSE [err |-> "nosuffix", path |-> <<>>]
    ELSE [err |-> "nil", path |-> inFilePath \o <<Dot>> \o suf]

-----------------------------------------------------------------------------
(* The file system *)

Dir == [kind |-> "dir"]
File(fmt, good) == [kind |-> "file", fmt |-> fmt, ok |-> good]
Raw == File("raw", TRUE)            \* uncompressed data
Partial == File("partial", FALSE)   \* an output created but not completely written
StdinContent == File("gzip", TRUE)  \* what standard input delivers

Exists(p) == p \in DOMAIN fs
IsDir(p) == Exists(p) /\ fs[p].kind = "dir"
IsFile(p) == Exists(p) /\ fs[p].kind = "file"

FsRemove(f, p) == [q \in (DOMAIN f) \ {p} |-> f[q]]
FsPut(f, p, v) == [q \in (DOMAIN f) \cup {p} |-> IF q = p THEN v ELSE f[q]]

\* readDirNames of filepath.Walk: the entries of directory p, sorted by name
ReadDirNames(p) ==
    LET pre == p \o <<Slash>>
    IN  SortStrings({q \in DOMAIN fs :
            /\ Len(q) > Len(pre)
            /\ SubSeq(q, 1, Len(pre)) = pre
            /\ IndexFrom(q, Slash, Len(pre) + 1) = 0})

P_g == <<"g">>
P_ggz == <<"g", ".", "g", "z">>
P_xxz == <<"x", ".", "x", "z">>
P_d == <<"d">>
P_dz == <<"d", "/", "z">>
P_dzgz == <<"d", "/", "z", ".", "g", "z">>
P_dzggz == <<"d", "/", "z", "/", "g", ".", "g", "z">>

\* The files a batch run starts with.
InitFS ==
    (P_g :> Raw) @@ (P_ggz :> File("gzip", TRUE)) @@ (P_xxz :> File("xz", TRUE))
    @@ (P_d :> Dir) @@ (P_dz :> Dir)
    @@ (P_dzgz :> File("gzip", TRUE))
    @@ (P_dzggz :> File("gzip", FALSE))

ArgChoices == <<Stdin, P_ggz, P_xxz, P_d, P_dzgz>>

RECURSIVE SeqOfIndexSet(_)
SeqOfIndexSet(S) ==
    IF S = {} THEN <<>>
    ELSE LET m == CHOOSE x \in S : \A y \in S : x <= y
         IN  <<ArgChoices[m]>> \o SeqOfIndexSet(S \ {m})

\* argument lists: up to MaxArgs distinct arguments
ArgLists == {SeqOfIndexSet(S) : S \in {T \in SUBSET (1..Len(ArgChoices)) :
                                        Cardinality(T) >= 1 /\ Cardinality(T) <= MaxArgs}}

\* one goroutine per argument; the slots beyond Len(args) stay idle
Workers == 1..MaxArgs

-----------------------------------------------------------------------------
(* Initial states *)

DefaultLevel == 4   \* flag.Int("l", 4, ...)
MaxLevel == 11      \* main: *level > 11 is invalid

\* The stream of a job before io.Pipe() is called.  ppc is the position of the
\* producer goroutine; name is the inFilePath it captured; algo is the
\* algorithm of its compressing writer, tier the option of its s2 writer;
\* pipe holds the bytes of a pw.Write
\* that no pr.Read has taken yet, n their number; wclosed is "no", "eof"
\* (pw.Close()) or the error of pw.CloseWithError; rclosed is pr.Close(); rd
\* counts the bytes io.Copy has moved from the source; bytesWritten is the
\* writeCounter; first: the codec has written nothing yet; perr: the error
\* the producer closes the pipe with; cbuf: bytes read from the
\* pipe and not yet written out; dec: the state of the decompressing reader;
\* sent (history): all the bytes that went through the pipe.
NoStream ==
    [ppc |-> "none", name |-> <<>>, algo |-> "none", tier |-> "none",
     pipe |-> <<>>, n |-> 0,
     wclosed |-> "no", rclosed |-> FALSE, rd |-> 0, bytesWritten |-> 0,
     first |-> TRUE, perr |-> "nil", cbuf |-> <<>>, dec |-> "hdr", sent |-> <<>>]

NoTrip == [n |-> 1, orig |-> <<>>, fault |-> FALSE]

NoSrc == [kind |-> "none"]          \* the producer has not opened its input yet
OpenFail == [kind |-> "openfail"]   \* os.Open failed in the producer

Flags == {c \in [cores : 1..MaxCores, level : {DefaultLevel}, verbose : {FALSE},
                 decompress : BOOLEAN, test : BOOLEAN,
                 stdout : BOOLEAN, force : BOOLEAN, keep : BOOLEAN,
                 recursive : BOOLEAN, algoSet : {FALSE}, sufSet : BOOLEAN] :
            /\ ~(c.decompress /\ c.test)
            /\ c.sufSet => c.stdout}

InitWorkers ==
    /\ inPath = [i \in Workers |-> <<>>]
    /\ outPath = [i \in Workers |-> <<>>]
    /\ todo = [i \in Workers |-> <<>>]
    /\ err = [i \in Workers |-> "nil"]
    /\ algoUsed = [i \in Workers |-> "none"]
    /\ src = [i \in Workers |-> NoSrc]
    /\ written = [i \in Workers |-> FALSE]
    /\ outcome = {}
    /\ stdinRead = FALSE
    /\ touched = [i \in Workers |-> FALSE]
    /\ jobsOf = [i \in Workers |-> <<>>]
    /\ stream = [i \in Workers |-> NoStream]
    /\ log = {}
    /\ logMu = [i \in Workers |-> FALSE]

\* The state of main at line 1006, after flag parsing and validation.
Init ==
    /\ cfg \in Flags
    /\ args \in ArgLists
    /\ cfg.recursive => \E k \in 1..Len(args) : args[k] = P_d
    /\ algorithm = "gzip"
    /\ suffix = <<"g", "z">>
    /\ fs = InitFS
    /\ mainPc = "loop"
    /\ next = 1
    /\ wg = 0
    /\ sem = 0
    /\ hasErrors = FALSE
    /\ mu = 0
    /\ pc = [i \in Workers |-> "idle"]
    /\ InitWorkers
    /\ bytes = <<>>
    /\ trip = NoTrip

-----------------------------------------------------------------------------
(* main: the dispatch loop and the final report *)

\* Lines 964-983: the level and the algorithm name are validated; exit()
\* prints the usage and ends the process.
Validate ==
    /\ mainPc = "validate"
    /\ mainPc' = IF cfg.level > MaxLevel \/ ~ValidAlgorithm(algorithm) THEN "usage" ELSE "loop"
    /\ UNCHANGED <<cfg, args, algorithm, suffix, fs, next, wg, sem, hasErrors, mu, pc, inPath,
                   outPath, todo, err, algoUsed, src, written, outcome, stdinRead,
                   touched, jobsOf,
                   stream, bytes, log, trip,
                   logMu>>

\* wg.Add(1); go func(f string) {...}(file)
Spawn ==
    /\ mainPc = "loop"
    /\ next <= Len(args)
    /\ wg' = wg + 1
    /\ pc' = [pc EXCEPT ![next] = "sem"]
    /\ next' = next + 1
    /\ UNCHANGED <<cfg, args, algorithm, suffix, fs, mainPc, sem, hasErrors, inPath,
                   outPath, todo, err, algoUsed, src, written, outcome, stdinRead,
                   touched,
                   jobsOf,
                   mu,
                   stream, bytes, log, trip,
                   logMu>>

\* WaitExit without wg.Wait(): the status is computed when the loop ends
WaitExitEarly ==
    /\ mainPc = "loop"
    /\ next > Len(args)
    /\ mainPc' = IF hasErrors THEN "exit1" ELSE "exit0"
    /\ UNCHANGED <<cfg, args, algorithm, suffix, fs, next, wg, sem, hasErrors, pc, inPath,
                   outPath, todo, err, algoUsed, src, written, outcome, stdinRead,
                   touched,
                   jobsOf,
                   mu,
                   stream, bytes, log, trip,
                   logMu>>

\* wg.Wait(); if hasErrors { os.Exit(1) }
WaitExit ==
    /\ mainPc = "loop"
    /\ next > Len(args)
    /\ wg = 0
    /\ mainPc' = IF hasErrors THEN "exit1" ELSE "exit0"
    /\ UNCHANGED <<cfg, args, algorithm, suffix, fs, next, wg, sem, hasErrors, pc, inPath,
                   outPath, todo, err, algoUsed, src, written, outcome, stdinRead,
                   touched,
                   jobsOf,
                   mu,
                   stream, bytes, log, trip,
                   logMu>>

-----------------------------------------------------------------------------
(* The worker goroutine of one argument *)

\* Acquire without the capacity of the channel: a send that never blocks
AcquireUnbounded(i) ==
    /\ pc[i] = "sem"
    /\ sem' = sem + 1
    /\ pc' = [pc EXCEPT ![i] = "run"]
    /\ UNCHANGED <<cfg, args, algorithm, suffix, fs, mainPc, next, wg, hasErrors, inPath,
                   outPath, todo, err, algoUsed, src, written, outcome, stdinRead,
                   touched,
                   jobsOf,
                   mu,
                   stream, bytes, log, trip,
                   logMu>>

\* sem <- struct{}{}
Acquire(i) ==
    /\ pc[i] = "sem"
    /\ sem < cfg.cores
    /\ sem' = sem + 1
    /\ pc' = [pc EXCEPT ![i] = "run"]
    /\ UNCHANGED <<cfg, args, algorithm, suffix, fs, mainPc, next, wg, hasErrors, inPath,
                   outPath, todo, err, algoUsed, src, written, outcome, stdinRead,
                   touched,
                   jobsOf,
                   mu,
                   stream, bytes, log, trip,
                   logMu>>

\* The body of the goroutine up to the call of processFile or filepath.Walk:
\* the stdin argument, os.Stat and its error, a directory with or without -r.
Dispatch(i) ==
    LET f == args[i]
        what == IF f = Stdin THEN "job"
                ELSE IF ~Exists(f) THEN "stat"
                ELSE IF IsDir(f) THEN (IF cfg.recursive THEN "walk" ELSE "isdirarg")
                ELSE "job"
    IN  /\ pc[i] = "run"
        /\ pc' = [pc EXCEPT ![i] = IF what = "job" THEN "detect"
                                   ELSE IF what = "walk" THEN "walk" ELSE "ret"]
        /\ inPath' = [inPath EXCEPT ![i] = IF what = "walk" THEN @ ELSE f]
        /\ todo' = [todo EXCEPT ![i] = IF what = "walk" THEN <<f>> ELSE @]
        /\ err' = [err EXCEPT ![i] = IF what \in {"stat", "isdirarg"} THEN what ELSE @]
        /\ touched' = [touched EXCEPT ![i] = (what # "walk" /\ f # Stdin)]
        /\ jobsOf' = [jobsOf EXCEPT ![i] = IF what = "job" THEN Append(@, f) ELSE @]
        /\ UNCHANGED <<cfg, args, algorithm, suffix, fs, mainPc, next, wg, sem, hasErrors,
                       mu, outPath, algoUsed, src, written, outcome, stdinRead,
                       stream, bytes, log, trip,
                       logMu>>

\* One step of filepath.Walk: the walk is over, or the next entry is looked at
\* (lstat): an entry that is gone is a walk error given to the callback, a
\* directory is read and descended into, a file is handed to processFile.
WalkStep(i) ==
    LET p == Head(todo[i])
        what == IF todo[i] = <<>> THEN "end"
                ELSE IF ~Exists(p) THEN "walkerr"
                ELSE IF IsDir(p) THEN "descend"
                ELSE "job"
    IN  /\ pc[i] = "walk"
        /\ pc' = [pc EXCEPT ![i] = IF what = "end" THEN "release"
                                   ELSE IF what = "job" THEN "detect"
                                   ELSE IF what = "walkerr" THEN "ret" ELSE "walk"]
        /\ inPath' = [inPath EXCEPT ![i] = IF what \in {"job", "walkerr"} THEN p ELSE @]
        /\ todo' = [todo EXCEPT ![i] = IF what = "descend" THEN ReadDirNames(p) \o Tail(@)
                                       ELSE @]
        /\ err' = [err EXCEPT ![i] = IF what = "walkerr" THEN "walk" ELSE @]
        /\ touched' = [touched EXCEPT ![i] = (what \in {"job", "walkerr"})]
        /\ jobsOf' = [jobsOf EXCEPT ![i] = IF what = "job" THEN Append(@, p) ELSE @]
        /\ UNCHANGED <<cfg, args, algorithm, suffix, fs, mainPc, next, wg, sem, hasErrors,
                       mu, outPath, algoUsed, src, written, outcome, stdinRead,
                       stream, bytes, log, trip,
                       logMu>>

\* The error paths that take mu before they log and set the flag: all but the
\* path of the stdin argument (lines 1021-1028) and of a failed os.Stat
\* (lines 1029-1034).
UsesMu(i) == args[i] # Stdin /\ err[i] # "stat"

\* An error has come back: (mu.Lock();) log.Printf(...) is entered
Log(i) ==
    /\ pc[i] = "ret"
    /\ err[i] # "nil"
    /\ UsesMu(i) => mu = 0
    /\ mu' = IF UsesMu(i) THEN i ELSE mu
    /\ pc' = [pc EXCEPT ![i] = "flag"]
    /\ UNCHANGED <<cfg, args, algorithm, suffix, fs, mainPc, next, wg, sem, hasErrors,
                   inPath, outPath, todo, err, algoUsed, src, written, outcome, stdinRead,
                   touched, jobsOf,
                   stream, bytes, log, trip,
                   logMu>>

\* Report with a walk callback that returns the job's error: Walk stops there
ReportAbortWalk(i) ==
    /\ pc[i] = "flag" \/ (pc[i] = "ret" /\ err[i] = "nil")
    /\ hasErrors' = (hasErrors \/ err[i] # "nil")
    /\ mu' = IF mu = i THEN 0 ELSE mu
    /\ outcome' = outcome \cup {<<inPath[i], IF err[i] = "nil" THEN "ok" ELSE "err">>}
    /\ pc' = [pc EXCEPT ![i] = IF todo[i] # <<>> /\ err[i] = "nil" THEN "walk" ELSE "release"]
    /\ todo' = [todo EXCEPT ![i] = IF @ # <<>> /\ err[i] = "nil" THEN Tail(@) ELSE <<>>]
    /\ inPath' = [inPath EXCEPT ![i] = <<>>]
    /\ outPath' = [outPath EXCEPT ![i] = <<>>]
    /\ err' = [err EXCEPT ![i] = "nil"]
    /\ algoUsed' = [algoUsed EXCEPT ![i] = "none"]
    /\ src' = [src EXCEPT ![i] = NoSrc]
    /\ written' = [written EXCEPT ![i] = FALSE]
    /\ touched' = [touched EXCEPT ![i] = FALSE]
    /\ UNCHANGED <<cfg, args, algorithm, suffix, fs, mainPc, next, wg, sem, stdinRead,
                   jobsOf,
                   stream, bytes, log, trip,
                   logMu>>

\* The caller takes the result: after an error hasErrors = true (and
\* mu.Unlock() when mu was taken); the walk goes on with the next entry, or
\* the goroutine returns.
Report(i) ==
    /\ pc[i] = "flag" \/ (pc[i] = "ret" /\ err[i] = "nil")
    /\ hasErrors' = (hasErrors \/ err[i] # "nil")
    /\ mu' = IF mu = i THEN 0 ELSE mu
    /\ outcome' = outcome \cup {<<inPath[i], IF err[i] = "nil" THEN "ok" ELSE "err">>}
    /\ pc' = [pc EXCEPT ![i] = IF todo[i] # <<>> THEN "walk" ELSE "release"]
    /\ todo' = [todo EXCEPT ![i] = IF @ # <<>> THEN Tail(@) ELSE @]
    /\ inPath' = [inPath EXCEPT ![i] = <<>>]
    /\ outPath' = [outPath EXCEPT ![i] = <<>>]
    /\ err' = [err EXCEPT ![i] = "nil"]
    /\ algoUsed' = [algoUsed EXCEPT ![i] = "none"]
    /\ src' = [src EXCEPT ![i] = NoSrc]
    /\ written' = [written EXCEPT ![i] = FALSE]
    /\ touched' = [touched EXCEPT ![i] = FALSE]
    /\ UNCHANGED <<cfg, args, algorithm, suffix, fs, mainPc, next, wg, sem, stdinRead,
                   jobsOf,
                   stream, bytes, log, trip,
                   logMu>>

\* The deferred calls of the goroutine: <-sem, then wg.Done()
Release(i) ==
    /\ pc[i] = "release"
    /\ sem' = sem - 1
    /\ wg' = wg - 1
    /\ pc' = [pc EXCEPT ![i] = "done"]
    /\ UNCHANGED <<cfg, args, algorithm, suffix, fs, mainPc, next, hasErrors, inPath,
                   outPath, todo, err, algoUsed, src, written, outcome, stdinRead,
                   touched,
                   jobsOf,
                   mu,
                   stream, bytes, log, trip,
                   logMu>>

-----------------------------------------------------------------------------
(* processFile, one shared access per step *)

\* return fmt.Errorf(...) / return err
Fail(i, e) ==
    /\ err' = [err EXCEPT ![i] = e]
    /\ pc' = [pc EXCEPT ![i] = "ret"]

\* Lines 468-477: in decompress or test mode the algorithm is detected from the
\* extension of a file argument, and stored into *algorithm unless the user
\* gave -algorithm.
Detect(i) ==
    LET byExt == (cfg.decompress \/ cfg.test) /\ inPath[i] # Stdin
        det == getAlgorithmFromExtension(inPath[i])
    IN  /\ pc[i] = "detect"
        /\ IF byExt /\ det.err
           THEN /\ Fail(i, "detect")
                /\ UNCHANGED algorithm
           ELSE /\ algorithm' = IF byExt /\ ~cfg.algoSet THEN det.algo ELSE algorithm
                /\ pc' = [pc EXCEPT ![i] = "suffix"]
                /\ UNCHANGED err
        /\ UNCHANGED <<cfg, args, suffix, fs, mainPc, next, wg, sem, hasErrors, inPath,
                       outPath, todo, algoUsed, src, written, outcome, stdinRead,
                       touched,
                       jobsOf,
                       mu,
                       stream, bytes, log, trip,
                       logMu>>

\* Lines 479-488: *suffix = getDefaultSuffix() unless the user gave -S.
SetSuffix(i) ==
    /\ pc[i] = "suffix"
    /\ suffix' = IF cfg.sufSet THEN suffix ELSE getDefaultSuffix(algorithm)
    /\ pc' = [pc EXCEPT ![i] = "check"]
    /\ UNCHANGED <<cfg, args, algorithm, fs, mainPc, next, wg, sem, hasErrors, inPath,
                   outPath, todo, err, algoUsed, src, written, outcome, stdinRead,
                   touched,
                   jobsOf,
                   mu,
                   stream, bytes, log, trip,
                   logMu>>

\* Lines 490-618 without the body of the test branch: the conflicting flags,
\* the stdin checks, os.Lstat of the input, and the output name.
\* [err |-> the error or "nil", to |-> the next position, out |-> outFilePath,
\*  lstat |-> os.Lstat(inFilePath) was called]
CheckResult(i) ==
    LET in == inPath[i]
        name == OutputName(in, suffix, cfg.decompress)
        stop(e, l) == [err |-> e, to |-> "ret", out |-> <<>>, lstat |-> l]
        go(to, out, l) == [err |-> "nil", to |-> to, out |-> out, lstat |-> l]
    IN  IF cfg.stdout /\ cfg.sufSet THEN stop("stdout_suffix", FALSE)
        ELSE IF cfg.stdout /\ cfg.force THEN stop("stdout_force", FALSE)
        ELSE IF cfg.stdout /\ cfg.keep THEN stop("stdout_keep", FALSE)
        ELSE IF cfg.test THEN go("test", <<>>, FALSE)
        ELSE IF in = Stdin
        THEN IF ~cfg.stdout THEN stop("stdin_to_file", FALSE)
             ELSE IF cfg.sufSet THEN stop("stdin_suffix", FALSE)
             ELSE go("start", <<>>, FALSE)
        ELSE IF ~Exists(in) THEN stop("lstat", TRUE)
        ELSE IF IsDir(in) THEN stop("isdir", TRUE)
        ELSE IF cfg.stdout THEN go("start", <<>>, TRUE)
        ELSE IF name.err # "nil" THEN stop(name.err, TRUE)
        ELSE go("outstat", name.path, TRUE)

Check(i) ==
    LET r == CheckResult(i)
    IN  /\ pc[i] = "check"
        /\ pc' = [pc EXCEPT ![i] = r.to]
        /\ err' = [err EXCEPT ![i] = r.err]
        /\ outPath' = [outPath EXCEPT ![i] = r.out]
        /\ touched' = [touched EXCEPT ![i] = @ \/ r.lstat]
        /\ UNCHANGED <<cfg, args, algorithm, suffix, fs, mainPc, next, wg, sem, hasErrors,
                       inPath, todo, algoUsed, src, written, outcome, stdinRead,
                       jobsOf,
                       mu,
                       stream, bytes, log, trip,
                       logMu>>

\* OutStat without the -f and IsDir checks: whatever is there is removed
OutStatOverwrite(i) ==
    LET o == outPath[i]
    IN  /\ pc[i] = "outstat"
        /\ fs' = IF Exists(o) THEN FsRemove(fs, o) ELSE fs
        /\ pc' = [pc EXCEPT ![i] = "start"]
        /\ UNCHANGED <<cfg, args, algorithm, suffix, mainPc, next, wg, sem, hasErrors, err,
                       inPath, outPath, todo, algoUsed, src, written, outcome, stdinRead,
                       touched,
                       jobsOf,
                       mu,
                       stream, bytes, log, trip,
                       logMu>>

\* Lines 620-633: os.Lstat of the output; an existing output is an error
\* without -f and when it is a directory, and is removed otherwise.
OutStat(i) ==
    LET o == outPath[i]
    IN  /\ pc[i] = "outstat"
        /\ IF Exists(o)
           THEN IF ~cfg.force THEN Fail(i, "exists") /\ UNCHANGED fs
                ELSE IF IsDir(o) THEN Fail(i, "outisdir") /\ UNCHANGED fs
                ELSE /\ fs' = FsRemove(fs, o)
                     /\ pc' = [pc EXCEPT ![i] = "start"]
                     /\ UNCHANGED err
           ELSE /\ pc' = [pc EXCEPT ![i] = "start"]
                /\ UNCHANGED <<fs, err>>
        /\ UNCHANGED <<cfg, args, algorithm, suffix, mainPc, next, wg, sem, hasErrors,
                       inPath, outPath, todo, algoUsed, src, written, outcome, stdinRead,
                       touched,
                       jobsOf,
                       mu,
                       stream, bytes, log, trip,
                       logMu>>

\* Test without its return: a successful test falls through to the removal
TestFallsThrough(i) ==
    LET in == inPath[i]
        content == IF in = Stdin THEN StdinContent ELSE fs[in]
    IN  /\ pc[i] = "test"
        /\ \E readable \in BOOLEAN :
             LET opened == in = Stdin \/ (Exists(in) /\ readable)
             IN  /\ algoUsed' = [algoUsed EXCEPT ![i] =
                                    IF opened THEN CodecBranch(algorithm) ELSE @]
                 /\ IF ~opened THEN Fail(i, "open")
                    ELSE IF /\ content.kind = "file"
                            /\ content.fmt = CodecBranch(algorithm)
                            /\ content.ok
                         THEN pc' = [pc EXCEPT ![i] = "remove"] /\ UNCHANGED err
                         ELSE Fail(i, "test")
        /\ stdinRead' = (stdinRead \/ in = Stdin)
        /\ touched' = [touched EXCEPT ![i] = TRUE]
        /\ UNCHANGED <<cfg, args, algorithm, suffix, fs, mainPc, next, wg, sem, hasErrors,
                       inPath, outPath, todo, src, written, outcome,
                       jobsOf,
                       mu,
                       stream, bytes, log, trip,
                       logMu>>

\* Lines 503-573: the test branch: open the input (os.Open may fail), select
\* the codec by *algorithm, decode everything into io.Discard; with -v a
\* successful test goes on to write its "OK" line.
Test(i) ==
    LET in == inPath[i]
        content == IF in = Stdin THEN StdinContent ELSE fs[in]
    IN  /\ pc[i] = "test"
        /\ \E readable \in BOOLEAN :
             LET opened == in = Stdin \/ (Exists(in) /\ readable)
             IN  /\ algoUsed' = [algoUsed EXCEPT ![i] =
                                    IF opened THEN CodecBranch(algorithm) ELSE @]
                 /\ IF ~opened THEN Fail(i, "open")
                    ELSE IF /\ content.kind = "file"
                            /\ content.fmt = CodecBranch(algorithm)
                            /\ content.ok
                         THEN /\ err' = [err EXCEPT ![i] = "nil"]
                              /\ pc' = [pc EXCEPT ![i] = IF cfg.verbose THEN "oklog"
                                                          ELSE "ret"]
                         ELSE Fail(i, "test")
        /\ stdinRead' = (stdinRead \/ in = Stdin)
        /\ touched' = [touched EXCEPT ![i] = TRUE]
        /\ UNCHANGED <<cfg, args, algorithm, suffix, fs, mainPc, next, wg, sem, hasErrors,
                       inPath, outPath, todo, src, written, outcome,
                       jobsOf,
                       mu,
                       stream, bytes, log, trip,
                       logMu>>

\* The codecs whose NewReader reads the stream header when it is constructed
\* (and so returns an error before the output is created).
EagerHeader == {"gzip", "zlib", "xz"}

\* The producer goroutine (lines 644-657, 739-841) opens its input (os.Open
\* fails when the file is gone or unreadable); in compress mode it then
\* selects the compressing writer by *algorithm.
ProdOpen(i) ==
    LET in == inPath[i]
    IN  /\ pc[i] \in {"start", "copy"}
        /\ src[i] = NoSrc
        /\ \E readable \in BOOLEAN :
             LET opened == in = Stdin \/ (IsFile(in) /\ readable)
             IN  /\ src' = [src EXCEPT ![i] = IF in = Stdin THEN StdinContent
                                              ELSE IF opened THEN fs[in] ELSE OpenFail]
                 /\ algoUsed' = [algoUsed EXCEPT ![i] =
                                    IF ~cfg.decompress /\ opened
                                    THEN CodecBranch(algorithm) ELSE @]
        /\ stdinRead' = (stdinRead \/ in = Stdin)
        /\ touched' = [touched EXCEPT ![i] = TRUE]
        /\ UNCHANGED <<cfg, args, algorithm, suffix, fs, mainPc, next, wg, sem, hasErrors,
                       pc, inPath, outPath, todo, err, written, outcome,
                       jobsOf,
                       mu,
                       stream, bytes, log, trip,
                       logMu>>

\* Lines 666-725 (decompress) and 877-888 (compress): in decompress mode the
\* decompressing reader is selected by *algorithm and constructed on the read
\* end of the pipe; then the output is created (os.Create, which may fail).
Start(i) ==
    LET a == CodecBranch(algorithm)
        eager == cfg.decompress /\ a \in EagerHeader
    IN  /\ pc[i] = "start"
        /\ eager => src[i] # NoSrc
        /\ algoUsed' = [algoUsed EXCEPT ![i] = IF cfg.decompress THEN a ELSE @]
        /\ \E created \in BOOLEAN :
             IF eager /\ src[i] = OpenFail THEN Fail(i, "open") /\ UNCHANGED fs
             ELSE IF eager /\ src[i].fmt # a THEN Fail(i, "codec") /\ UNCHANGED fs
             ELSE IF cfg.stdout
                  THEN /\ pc' = [pc EXCEPT ![i] = "copy"]
                       /\ UNCHANGED <<fs, err>>
             ELSE IF ~created \/ IsDir(outPath[i]) THEN Fail(i, "create") /\ UNCHANGED fs
             ELSE /\ fs' = FsPut(fs, outPath[i], Partial)
                  /\ pc' = [pc EXCEPT ![i] = "copy"]
                  /\ UNCHANGED err
        /\ UNCHANGED <<cfg, args, algorithm, suffix, mainPc, next, wg, sem, hasErrors,
                       inPath, outPath, todo, src, written, outcome, stdinRead,
                       touched,
                       jobsOf,
                       mu,
                       stream, bytes, log, trip,
                       logMu>>

\* The outcome of streaming the input through the codec into the output:
\* the producer's open error, a read error of the source, a write error of
\* the destination, a decode error of the codec, or "nil".
CopyResult(i, fault) ==
    IF src[i] = OpenFail THEN "open"
    ELSE IF fault # "none" THEN fault
    ELSE IF cfg.decompress /\ ~(src[i].fmt = algoUsed[i] /\ src[i].ok) THEN "codec"
    ELSE "nil"

\* Copy without the return on its error: the job goes on to the removal
CopyIgnoreError(i) ==
    /\ pc[i] = "copy"
    /\ src[i] # NoSrc
    /\ \E fault \in {"none", "read", "write"} :
         LET e == CopyResult(i, fault)
             o == outPath[i]
             data == IF cfg.decompress THEN Raw ELSE File(algoUsed[i], TRUE)
         IN  /\ fs' = IF e = "nil" /\ ~cfg.stdout /\ IsFile(o) THEN FsPut(fs, o, data) ELSE fs
             /\ written' = [written EXCEPT ![i] = (e = "nil")]
             /\ pc' = [pc EXCEPT ![i] = "remove"]
             /\ UNCHANGED err
    /\ UNCHANGED <<cfg, args, algorithm, suffix, mainPc, next, wg, sem, hasErrors,
                   inPath, outPath, todo, algoUsed, src, outcome, stdinRead,
                   touched,
                   jobsOf,
                   mu,
                   stream, bytes, log, trip,
                   logMu>>

\* Lines 727-731 and 890-894: io.Copy into the output, pr.Close(), and the
\* return of its error; with -v a successful copy goes on to the verbose
\* line, for which logMu of this call is locked.
Copy(i) ==
    /\ pc[i] = "copy"
    /\ src[i] # NoSrc
    /\ \E fault \in {"none", "read", "write"} :
         LET e == CopyResult(i, fault)
             o == outPath[i]
             data == IF cfg.decompress THEN Raw ELSE File(algoUsed[i], TRUE)
         IN  IF e = "nil"
             THEN /\ fs' = IF ~cfg.stdout /\ IsFile(o) THEN FsPut(fs, o, data) ELSE fs
                  /\ written' = [written EXCEPT ![i] = TRUE]
                  /\ pc' = [pc EXCEPT ![i] = IF cfg.verbose THEN "vlog" ELSE "remove"]
                  /\ logMu' = [logMu EXCEPT ![i] = cfg.verbose]
                  /\ UNCHANGED err
             ELSE /\ Fail(i, e)
                  /\ UNCHANGED <<fs, written, logMu>>
    /\ UNCHANGED <<cfg, args, algorithm, suffix, mainPc, next, wg, sem, hasErrors,
                   inPath, outPath, todo, algoUsed, src, outcome, stdinRead,
                   touched,
                   jobsOf,
                   mu,
                   stream, bytes, log, trip>>

\* Line 570: fmt.Fprintf(os.Stderr, "%s: OK\n", inFilePath) returns; no lock
\* is taken around it.
TestOK(i) ==
    /\ pc[i] = "oklog"
    /\ pc' = [pc EXCEPT ![i] = "ret"]
    /\ UNCHANGED <<cfg, args, algorithm, suffix, fs, mainPc, next, wg, sem, hasErrors,
                   inPath, outPath, todo, err, algoUsed, src, written, outcome, stdinRead,
                   touched, jobsOf, mu, stream, bytes, log, trip, logMu>>

\* Lines 733-737 and 855-874: the verbose line of the job (the statistics of
\* a compression, "done" of a decompression) is written between
\* logMu.Lock() and logMu.Unlock(); here the write returns and logMu is
\* unlocked.
VerboseLine(i) ==
    /\ pc[i] = "vlog"
    /\ logMu' = [logMu EXCEPT ![i] = FALSE]
    /\ pc' = [pc EXCEPT ![i] = "remove"]
    /\ UNCHANGED <<cfg, args, algorithm, suffix, fs, mainPc, next, wg, sem, hasErrors,
                   inPath, outPath, todo, err, algoUsed, src, written, outcome, stdinRead,
                   touched, jobsOf, mu, stream, bytes, log, trip>>

\* Lines 897-905: the original is removed unless -c or -k is set or the
\* input is standard input; processFile returns.
Remove(i) ==
    LET in == inPath[i]
    IN  /\ pc[i] = "remove"
        /\ IF ~cfg.stdout /\ ~cfg.keep /\ in # Stdin
           THEN IF Exists(in)
                THEN /\ fs' = FsRemove(fs, in)
                     /\ Fail(i, "nil")
                ELSE /\ Fail(i, "remove")
                     /\ UNCHANGED fs
           ELSE /\ Fail(i, "nil")
                /\ UNCHANGED fs
        /\ UNCHANGED <<cfg, args, algorithm, suffix, mainPc, next, wg, sem, hasErrors,
                       inPath, outPath, todo, algoUsed, src, written, outcome, stdinRead,
                       touched,
                       jobsOf,
                       mu,
                       stream, bytes, log, trip,
                       logMu>>

-----------------------------------------------------------------------------
(* The batch run *)

Job(i) ==
    \/ Detect(i)
    \/ SetSuffix(i)
    \/ Check(i)
    \/ OutStat(i)
    \/ Test(i)
    \/ ProdOpen(i)
    \/ Start(i)
    \/ Copy(i)
    \/ Remove(i)

Worker(i) ==
    \/ Acquire(i)
    \/ Dispatch(i)
    \/ WalkStep(i)
    \/ Job(i)
    \/ Log(i)
    \/ Report(i)
    \/ Release(i)

Next ==
    \/ Spawn
    \/ WaitExit
    \/ \E i \in Workers : Worker(i)

Spec == Init /\ [][Next]_vars

-----------------------------------------------------------------------------
(* Resolver runs: one job, every input name and every -S suffix up to the  *)
(* bounds, from the entry of processFile to the computed output name.      *)

ResolveAlphabet == {Dot, "g", "z"}

StringsUpTo(n) == UNION {[1..k -> ResolveAlphabet] : k \in 0..n}

\* names a regular file can have, and the stdin marker
ResolveNames == (StringsUpTo(MaxNameLen) \ {<<>>, <<Dot>>, <<Dot, Dot>>}) \cup {Stdin}

UserAlgorithm == "xz"   \* the value of -algorithm when the user gives one

ResolveFlags == {c \in [cores : {1}, level : {DefaultLevel}, verbose : {FALSE},
                        decompress : BOOLEAN, test : BOOLEAN,
                        stdout : {FALSE}, force : {FALSE}, keep : {FALSE},
                        recursive : {FALSE}, algoSet : BOOLEAN, sufSet : BOOLEAN] :
                   ~(c.decompress /\ c.test)}

\* The worker of the only argument has its slot and enters processFile.
InitResolve ==
    /\ cfg \in ResolveFlags
    /\ \E name \in ResolveNames :
         /\ args = <<name>>
         /\ fs = IF name = Stdin THEN <<>> ELSE (name :> File("gzip", TRUE))
         /\ inPath = [i \in Workers |-> IF i = 1 THEN name ELSE <<>>]
    /\ algorithm = IF cfg.algoSet THEN UserAlgorithm ELSE "gzip"
    /\ suffix \in IF cfg.sufSet THEN StringsUpTo(MaxSufLen) ELSE {<<"g", "z">>}
    /\ mainPc = "loop"
    /\ next = 2
    /\ wg = 1
    /\ sem = 1
    /\ hasErrors = FALSE
    /\ mu = 0
    /\ pc = [i \in Workers |-> IF i = 1 THEN "detect" ELSE "idle"]
    /\ outPath = [i \in Workers |-> <<>>]
    /\ todo = [i \in Workers |-> <<>>]
    /\ err = [i \in Workers |-> "nil"]
    /\ algoUsed = [i \in Workers |-> "none"]
    /\ src = [i \in Workers |-> NoSrc]
    /\ written = [i \in Workers |-> FALSE]
    /\ outcome = {}
    /\ stdinRead = FALSE
    /\ touched = [i \in Workers |-> i = 1 /\ args[1] # Stdin]
    /\ jobsOf = [i \in Workers |-> IF i = 1 THEN <<args[1]>> ELSE <<>>]
    /\ stream = [i \in Workers |-> NoStream]
    /\ bytes = <<>>
    /\ log = {}
    /\ logMu = [i \in Workers |-> FALSE]
    /\ trip = NoTrip

NextResolve ==
    \E i \in Workers :
        \/ Detect(i)
        \/ SetSuffix(i)
        \/ Check(i)

SpecResolve == InitResolve /\ [][NextResolve]_vars

-----------------------------------------------------------------------------
(* Algorithm runs: one argument, -algorithm given by the user, from the    *)
(* validation in main to the end of the run.                               *)

\* the values of -algorithm that are tried
AlgoArgs == Algorithms \cup {"GZIP", "Xz", "zip"}

AlgoFlags == {c \in [cores : {1}, level : {DefaultLevel}, verbose : {FALSE},
                     decompress : BOOLEAN, test : BOOLEAN,
                     stdout : BOOLEAN, force : {FALSE}, keep : BOOLEAN,
                     recursive : {FALSE}, algoSet : {TRUE}, sufSet : {FALSE}] :
                ~(c.decompress /\ c.test)}

\* The state of main at line 964, after the flags are parsed.
InitAlgo ==
    /\ cfg \in AlgoFlags
    /\ args \in {<<P_g>>, <<P_ggz>>, <<P_xxz>>}
    /\ algorithm \in AlgoArgs
    /\ suffix = <<"g", "z">>
    /\ fs = InitFS
    /\ mainPc = "validate"
    /\ next = 1
    /\ wg = 0
    /\ sem = 0
    /\ hasErrors = FALSE
    /\ mu = 0
    /\ pc = [i \in Workers |-> "idle"]
    /\ InitWorkers
    /\ bytes = <<>>
    /\ trip = NoTrip

NextAlgo ==
    \/ Validate
    \/ Spawn
    \/ WaitExit
    \/ \E i \in Workers :
          \/ Acquire(i)
          \/ Dispatch(i)
          \/ Job(i)
          \/ Log(i)
          \/ Report(i)
          \/ Release(i)

SpecAlgo == InitAlgo /\ [][NextAlgo]_vars

-----------------------------------------------------------------------------
(* The batch run with -v: the lines that the jobs write to os.Stderr.  A   *)
(* worker is inside a write from the step that enters it to the step in    *)
(* which the write returns.                                                *)

LogFlags == {c \in [cores : 1..MaxCores, level : {DefaultLevel}, verbose : {TRUE},
                    decompress : BOOLEAN, test : BOOLEAN,
                    stdout : {FALSE}, force : {TRUE}, keep : BOOLEAN,
                    recursive : BOOLEAN, algoSet : {FALSE}, sufSet : {FALSE}] :
               ~(c.decompress /\ c.test)}

\* The state of main at line 1006, after flag parsing and validation.
InitLog ==
    /\ cfg \in LogFlags
    /\ args \in ArgLists
    /\ cfg.recursive => \E k \in 1..Len(args) : args[k] = P_d
    /\ algorithm = "gzip"
    /\ suffix = <<"g", "z">>
    /\ fs = InitFS
    /\ mainPc = "loop"
    /\ next = 1
    /\ wg = 0
    /\ sem = 0
    /\ hasErrors = FALSE
    /\ mu = 0
    /\ pc = [i \in Workers |-> "idle"]
    /\ InitWorkers
    /\ bytes = <<>>
    /\ trip = NoTrip

NextLog ==
    \/ Spawn
    \/ WaitExit
    \/ \E i \in Workers :
          \/ Worker(i)
          \/ TestOK(i)
          \/ VerboseLine(i)

SpecLog == InitLog /\ [][NextLog]_vars

-----------------------------------------------------------------------------
(* The stream of one job, one pipe operation per step.  A byte is a record; *)
(* a codec is a lossless transform that writes a header, one encoded byte  *)
(* per input byte, and a trailer when it is closed.                        *)

ByteValues == {"a", "b"}

RawByte(b) == [k |-> "raw", a |-> "none", b |-> b]
Hdr(a) == [k |-> "hdr", a |-> a, b |-> "none"]
Enc(a, b) == [k |-> "enc", a |-> a, b |-> b]
Trl(a) == [k |-> "end", a |-> a, b |-> "none"]

\* the files of up to n bytes
BytesUpTo(n) == UNION {[1..k -> {RawByte(b) : b \in ByteValues}] : k \in 0..n}

\* The levels the compressing writers accept: compress/gzip and compress/zlib
\* take HuffmanOnly (-2) to BestCompression (9); dsnet bzip2 takes 0 (default)
\* to 9; klauspost zstd has the four levels SpeedFastest (1) to
\* SpeedBestCompression (4); lzma takes 1 to 9; s2 and lz4 are given an
\* option chosen by a switch with a default branch, xz takes no level, and
\* brotli takes 0 to 11.
EncoderAccepts(a, l) ==
    CASE a \in {"gzip", "zlib"} -> l \in -2..9
      [] a = "bzip2"            -> l \in 0..9
      [] a = "zstd"             -> l \in 1..4
      [] a = "lzma"             -> l \in 1..9
      [] a = "brotli"           -> l \in 0..11
      [] OTHER                  -> TRUE

\* Lines 776-784: the option the s2 writer is constructed with.  "fast" is
\* s2.NewWriter without an option.
s2Tier(l) ==
    IF l <= 3 THEN "better"
    ELSE IF l >= 7 THEN "best"
    ELSE "fast"

\* The constructors that return an error (lines 759-793); the lzma writer is
\* returned without one (line 795) and fails on its first use.
ConstructorFails(a, l) == a \in {"gzip", "zlib", "bzip2", "zstd"} /\ ~EncoderAccepts(a, l)

\* What the compressing writer hands to its underlying writer for one input
\* byte, and when it is closed.
EncWrite(a, first, b) == (IF first THEN <<Hdr(a)>> ELSE <<>>) \o <<Enc(a, b.b)>>
EncClose(a, first) == (IF first THEN <<Hdr(a)>> ELSE <<>>) \o <<Trl(a)>>

\* The decompressing reader of algorithm a in state s ("hdr", "body", "end",
\* "bad") taking one byte of the stream: the next state and the decoded bytes.
DecByte(a, s, t) ==
    IF s = "hdr" /\ t = Hdr(a) THEN [s |-> "body", out |-> <<>>]
    ELSE IF s = "body" /\ t.k = "enc" /\ t.a = a
         THEN [s |-> "body", out |-> <<RawByte(t.b)>>]
    ELSE IF s = "body" /\ t = Trl(a) THEN [s |-> "end", out |-> <<>>]
    ELSE [s |-> "bad", out |-> <<>>]

RECURSIVE DecChunk(_, _, _)
DecChunk(a, s, chunk) ==
    IF chunk = <<>> THEN [s |-> s, out |-> <<>>]
    ELSE LET h == DecByte(a, s, Head(chunk))
             r == DecChunk(a, h.s, Tail(chunk))
         IN  [s |-> r.s, out |-> h.out \o r.out]

\* A pipe whose last close of the write end wins
CloseWriteLast(st, e) == e

\* pw.CloseWithError(e) and pw.Close(): the first close of the write end wins
CloseWrite(st, e) == IF st.wclosed = "no" THEN e ELSE st.wclosed

\* A producer without the deferred pw.Close(): after a copy without an error
\* the write end stays open
ProducerReturnUnclosed(st, e) ==
    LET c == IF e = "nil" THEN st
             ELSE [st EXCEPT !.wclosed = CloseWrite(st, e), !.perr = e]
    IN  [c EXCEPT !.ppc = "done"]

\* The producer returns: pw.CloseWithError(e) unless e is "nil", then the
\* deferred pw.Close() (lines 645 and 741).
ProducerReturn(st, e) ==
    LET c == IF e = "nil" THEN st
             ELSE [st EXCEPT !.wclosed = CloseWrite(st, e), !.perr = e]
    IN  [c EXCEPT !.ppc = "done", !.wclosed = CloseWrite(c, "eof")]

\* A return of the consumer without pr.Close()
CloseReadSkipped(st) == st

\* pr.Close() (lines 672-722, 728, 884 and 891)
CloseRead(st) == [st EXCEPT !.rclosed = TRUE]

\* writeCounter.Write with an assignment in the place of the addition
writeCounterSet(bytesWritten, n) == n

\* writeCounter.Write, line 915: w.bytesWritten += int64(n)
writeCounterAdd(bytesWritten, n) == bytesWritten + n

\* Lines 638-643 and 738-739: io.Pipe() and the go statement of the producer.
\* The pipe and the producer are those of this call of processFile: a
\* producer that an earlier call of the same goroutine (in a walk) has left
\* behind has only a closed pipe to write to and is followed no further.
Pipe(i) ==
    /\ pc[i] = "start"
    /\ stream[i].name # inPath[i]
    /\ stream' = [stream EXCEPT ![i] = [NoStream EXCEPT !.ppc = "open", !.name = inPath[i]]]
    /\ UNCHANGED <<cfg, args, algorithm, suffix, fs, mainPc, next, wg, sem, hasErrors,
                   pc, inPath, outPath, todo, err, algoUsed, src, written, outcome,
                   stdinRead, touched, jobsOf, mu, bytes, log, trip,
                   logMu>>

\* Lines 645-657 and 741-753: the producer opens its input; on an error it
\* closes the pipe with it and returns.
POpen(i) ==
    LET st == stream[i]
        in == st.name
    IN  /\ mainPc = "loop"
        /\ st.ppc = "open"
        /\ \E readable \in BOOLEAN :
             LET opened == in = Stdin \/ (IsFile(in) /\ readable)
             IN  /\ stream' = [stream EXCEPT ![i] =
                       IF opened
                       THEN [st EXCEPT !.ppc = IF cfg.decompress THEN "read" ELSE "codec"]
                       ELSE ProducerReturn(st, "open")]
                 /\ trip' = [trip EXCEPT !.fault = @ \/ ~opened]
        /\ stdinRead' = (stdinRead \/ in = Stdin)
        /\ touched' = [touched EXCEPT ![i] = TRUE]
        /\ UNCHANGED <<cfg, args, algorithm, suffix, fs, mainPc, next, wg, sem, hasErrors,
                       pc, inPath, outPath, todo, err, algoUsed, src, written, outcome,
                       jobsOf, mu, bytes, log,
                       logMu>>

\* Lines 755-841: the compressing writer is selected by *algorithm and
\* constructed on the writeCounter with *level; a constructor error closes
\* the pipe with it.
PCodec(i) ==
    LET a == CodecBranch(algorithm)
        st == stream[i]
    IN  /\ mainPc = "loop"
        /\ st.ppc = "codec"
        /\ algoUsed' = [algoUsed EXCEPT ![i] = a]
        /\ stream' = [stream EXCEPT ![i] =
              IF ConstructorFails(a, cfg.level)
              THEN ProducerReturn(st, "level")
              ELSE [st EXCEPT !.ppc = "read", !.algo = a,
                              !.tier = IF a = "s2" THEN s2Tier(cfg.level) ELSE "none"]]
        /\ UNCHANGED <<cfg, args, algorithm, suffix, fs, mainPc, next, wg, sem, hasErrors,
                       pc, inPath, outPath, todo, err, src, written, outcome,
                       stdinRead, touched, jobsOf, mu, bytes, log, trip,
                       logMu>>

\* io.Copy of the producer (lines 659 and 843), one byte of the source per
\* turn: the read fails, or reaches the end of the file, or returns a byte
\* that is written to the pipe, in compress mode through the codec and the
\* writeCounter.  pw.Write blocks until the bytes are taken (PWritten).
PRead(i) ==
    LET st == stream[i]
        d == bytes[st.name]
        a == st.algo
    IN  /\ mainPc = "loop"
        /\ st.ppc = "read"
        /\ \E fault \in BOOLEAN :
             /\ stream' = [stream EXCEPT ![i] =
                   IF fault
                   THEN IF cfg.decompress
                        THEN ProducerReturn(st, "read")
                        ELSE [st EXCEPT !.ppc = "close", !.perr = "read"]
                   ELSE IF st.rd = Len(d)
                   THEN IF cfg.decompress
                        THEN ProducerReturn(st, "nil")
                        ELSE [st EXCEPT !.ppc = "close"]
                   ELSE IF cfg.decompress
                   THEN [st EXCEPT !.ppc = "write", !.pipe = <<d[st.rd + 1]>>, !.n = 1]
                   ELSE IF ~EncoderAccepts(a, cfg.level)
                   THEN [st EXCEPT !.ppc = "close", !.perr = "level"]
                   ELSE LET chunk == EncWrite(a, st.first, d[st.rd + 1])
                        IN  [st EXCEPT !.ppc = "write", !.pipe = chunk, !.n = Len(chunk),
                                       !.first = FALSE]]
             /\ trip' = [trip EXCEPT !.fault = @ \/ fault]
        /\ UNCHANGED <<cfg, args, algorithm, suffix, fs, mainPc, next, wg, sem, hasErrors,
                       pc, inPath, outPath, todo, err, algoUsed, src, written, outcome,
                       stdinRead, touched, jobsOf, mu, bytes, log,
                       logMu>>

\* pw.Write returns: all its bytes were taken, or the read end was closed
\* first (io.ErrClosedPipe, none of them taken).  In compress mode the
\* writeCounter adds what the pipe took (lines 913-917).
PWritten(i) ==
    LET st == stream[i]
        taken == st.pipe = <<>>
        n == IF taken THEN st.n ELSE 0
        counted == IF cfg.decompress THEN st.bytesWritten
                   ELSE writeCounterAdd(st.bytesWritten, n)
    IN  /\ mainPc = "loop"
        /\ st.ppc = "write"
        /\ taken \/ st.rclosed
        /\ stream' = [stream EXCEPT ![i] =
              IF taken
              THEN [st EXCEPT !.ppc = "read", !.rd = @ + 1, !.bytesWritten = counted,
                              !.n = 0]
              ELSE IF cfg.decompress
              THEN ProducerReturn([st EXCEPT !.pipe = <<>>, !.n = 0], "closedpipe")
              ELSE [st EXCEPT !.ppc = "close", !.pipe = <<>>, !.n = 0,
                              !.bytesWritten = counted, !.perr = "closedpipe"]]
        /\ UNCHANGED <<cfg, args, algorithm, suffix, fs, mainPc, next, wg, sem, hasErrors,
                       pc, inPath, outPath, todo, err, algoUsed, src, written, outcome,
                       stdinRead, touched, jobsOf, mu, bytes, log, trip,
                       logMu>>

\* w.Close() (lines 845 and 850): the codec writes the end of its stream to
\* the pipe; pw.Write blocks until the bytes are taken (PClosed).
PClose(i) ==
    LET st == stream[i]
        a == st.algo
        chunk == IF EncoderAccepts(a, cfg.level) THEN EncClose(a, st.first) ELSE <<>>
    IN  /\ mainPc = "loop"
        /\ st.ppc = "close"
        /\ stream' = [stream EXCEPT ![i] =
              [st EXCEPT !.ppc = "closing", !.pipe = chunk, !.n = Len(chunk),
                         !.first = FALSE]]
        /\ UNCHANGED <<cfg, args, algorithm, suffix, fs, mainPc, next, wg, sem, hasErrors,
                       pc, inPath, outPath, todo, err, algoUsed, src, written, outcome,
                       stdinRead, touched, jobsOf, mu, bytes, log, trip,
                       logMu>>

\* w.Close() returns (lines 844-853).  After an error of io.Copy the pipe is
\* closed with that error whatever w.Close() returned; otherwise with the
\* error of w.Close(), if any; otherwise the producer goes on to the
\* statistics (verbose) or returns, and the deferred pw.Close() runs.
PClosed(i) ==
    LET st == stream[i]
        taken == st.pipe = <<>>
        closeErr == IF ~EncoderAccepts(st.algo, cfg.level) THEN "level"
                    ELSE IF taken THEN "nil" ELSE "closedpipe"
        e == IF st.perr # "nil" THEN st.perr ELSE closeErr
        counted == writeCounterAdd(st.bytesWritten, IF taken THEN st.n ELSE 0)
    IN  /\ mainPc = "loop"
        /\ st.ppc = "closing"
        /\ taken \/ st.rclosed
        /\ stream' = [stream EXCEPT ![i] =
              IF e # "nil"
              THEN ProducerReturn([st EXCEPT !.pipe = <<>>, !.n = 0,
                                             !.bytesWritten = counted], e)
              ELSE IF cfg.verbose
              THEN [st EXCEPT !.ppc = "stats", !.n = 0, !.bytesWritten = counted]
              ELSE ProducerReturn([st EXCEPT !.n = 0, !.bytesWritten = counted], "nil")]
        /\ UNCHANGED <<cfg, args, algorithm, suffix, fs, mainPc, next, wg, sem, hasErrors,
                       pc, inPath, outPath, todo, err, algoUsed, src, written, outcome,
                       stdinRead, touched, jobsOf, mu, bytes, log, trip,
                       logMu>>

\* Lines 855-875: the producer prints the statistics line (inSize and
\* counter.bytesWritten) and returns; the deferred pw.Close() runs.
PStats(i) ==
    LET st == stream[i]
    IN  /\ mainPc = "loop"
        /\ st.ppc = "stats"
        /\ log' = log \cup {[name |-> st.name, in |-> st.rd, out |-> st.bytesWritten]}
        /\ stream' = [stream EXCEPT ![i] =
              ProducerReturn(st, "nil")]
        /\ UNCHANGED <<cfg, args, algorithm, suffix, fs, mainPc, next, wg, sem, hasErrors,
                       pc, inPath, outPath, todo, err, algoUsed, src, written, outcome,
                       stdinRead, touched, jobsOf, mu, bytes, trip,
                       logMu>>

\* pr.Read took the bytes of the blocked pw.Write: the reader is left in
\* state s with the bytes out to write
Take(st, s, out) ==
    [st EXCEPT !.pipe = <<>>, !.sent = @ \o st.pipe, !.dec = s, !.cbuf = out]

\* os.Create(o): the file exists and is empty
Truncate(b, o) == [p \in DOMAIN b \cup {o} |-> IF p = o THEN <<>> ELSE b[p]]

\* bzip2.NewReader(pr, nil) of dsnet/compress only resets the reader it
\* allocates and returns a nil error, so the return of lines 686-688 is not
\* taken.
bzip2NewReaderFails == FALSE

\* Lines 666-725 (decompress) and 877-888 (compress), with the pipe: in
\* decompress mode the decompressing reader is selected by *algorithm and
\* constructed on pr, and the constructors of gzip, zlib and xz read the
\* header from the pipe; then the output is created (os.Create, which may
\* fail).  Each error return is preceded by pr.Close(), but for the one after
\* bzip2.NewReader.
CStart(i) ==
    LET a == CodecBranch(algorithm)
        st == stream[i]
        o == outPath[i]
        eager == cfg.decompress /\ a \in EagerHeader
        h == IF eager /\ st.pipe # <<>> THEN DecChunk(a, st.dec, st.pipe)
             ELSE [s |-> st.dec, out |-> <<>>]
        herr == IF ~eager THEN "nil"
                ELSE IF st.pipe = <<>>
                     THEN (IF st.wclosed = "eof" THEN "codec" ELSE st.wclosed)
                ELSE IF h.s = "bad" THEN "codec" ELSE "nil"
        got == IF eager /\ st.pipe # <<>> THEN Take(st, h.s, h.out) ELSE st
    IN  /\ pc[i] = "start"
        /\ st.name = inPath[i]
        /\ eager => (st.pipe # <<>> \/ st.wclosed # "no")
        /\ algoUsed' = [algoUsed EXCEPT ![i] = IF cfg.decompress THEN a ELSE @]
        /\ \E created \in BOOLEAN :
             IF cfg.decompress /\ a = "bzip2" /\ bzip2NewReaderFails
             THEN /\ Fail(i, "codec")
                  /\ UNCHANGED <<stream, fs, bytes, trip>>
             ELSE IF herr # "nil"
             THEN /\ Fail(i, herr)
                  /\ stream' = [stream EXCEPT ![i] = CloseRead(got)]
                  /\ UNCHANGED <<fs, bytes, trip>>
             ELSE IF cfg.stdout
             THEN /\ pc' = [pc EXCEPT ![i] = "copy"]
                  /\ stream' = [stream EXCEPT ![i] = got]
                  /\ UNCHANGED <<fs, bytes, trip, err>>
             ELSE IF ~created \/ IsDir(o)
             THEN /\ Fail(i, "create")
                  /\ stream' = [stream EXCEPT ![i] = CloseRead(got)]
                  /\ trip' = [trip EXCEPT !.fault = TRUE]
                  /\ UNCHANGED <<fs, bytes>>
             ELSE /\ pc' = [pc EXCEPT ![i] = "copy"]
                  /\ stream' = [stream EXCEPT ![i] = got]
                  /\ fs' = FsPut(fs, o, Partial)
                  /\ bytes' = Truncate(bytes, o)
                  /\ UNCHANGED <<trip, err>>
        /\ UNCHANGED <<cfg, args, algorithm, suffix, mainPc, next, wg, sem, hasErrors,
                       inPath, outPath, todo, src, written, outcome, stdinRead,
                       touched, jobsOf, mu, log,
                       logMu>>

\* io.Copy of the consumer (lines 727 and 890) reads: it takes the bytes of
\* the blocked pw.Write, in decompress mode through the decompressing
\* reader; or the write end is closed and the read returns io.EOF or the
\* error the pipe was closed with.  When io.Copy returns, pr.Close() follows
\* (lines 728 and 891), then the error return, or the job goes on.
CRead(i) ==
    LET st == stream[i]
        o == outPath[i]
        a == algoUsed[i]
        h == IF cfg.decompress THEN DecChunk(a, st.dec, st.pipe)
             ELSE [s |-> st.dec, out |-> st.pipe]
        e == IF st.pipe # <<>> THEN (IF h.s = "bad" THEN "codec" ELSE "more")
             ELSE IF st.wclosed # "eof" THEN st.wclosed
             ELSE IF cfg.decompress /\ st.dec # "end" THEN "codec"
             ELSE "nil"
        got == IF st.pipe # <<>> THEN Take(st, h.s, h.out) ELSE st
        result == IF cfg.decompress THEN Raw ELSE File(a, TRUE)
    IN  /\ pc[i] = "copy"
        /\ st.cbuf = <<>>
        /\ st.pipe # <<>> \/ st.wclosed # "no"
        /\ IF e = "more"
           THEN /\ stream' = [stream EXCEPT ![i] = got]
                /\ UNCHANGED <<pc, err, fs, written>>
           ELSE IF e = "nil"
           THEN /\ stream' = [stream EXCEPT ![i] = CloseRead(got)]
                /\ pc' = [pc EXCEPT ![i] = "remove"]
                /\ written' = [written EXCEPT ![i] = TRUE]
                /\ fs' = IF ~cfg.stdout /\ IsFile(o) THEN FsPut(fs, o, result) ELSE fs
                /\ UNCHANGED err
           ELSE /\ stream' = [stream EXCEPT ![i] = CloseRead(got)]
                /\ Fail(i, e)
                /\ UNCHANGED <<fs, written>>
        /\ UNCHANGED <<cfg, args, algorithm, suffix, mainPc, next, wg, sem, hasErrors,
                       inPath, outPath, todo, algoUsed, src, outcome, stdinRead,
                       touched, jobsOf, mu, bytes, log, trip,
                       logMu>>

\* io.Copy of the consumer writes what it read to the output; a write error
\* ends io.Copy, and pr.Close() and the error return follow.
CWrite(i) ==
    LET st == stream[i]
        o == outPath[i]
    IN  /\ pc[i] = "copy"
        /\ st.cbuf # <<>>
        /\ \E fault \in BOOLEAN :
             IF fault
             THEN /\ stream' = [stream EXCEPT ![i] =
                                   CloseRead([st EXCEPT !.cbuf = <<>>])]
                  /\ Fail(i, "write")
                  /\ trip' = [trip EXCEPT !.fault = TRUE]
                  /\ UNCHANGED bytes
             ELSE /\ stream' = [stream EXCEPT ![i] = [st EXCEPT !.cbuf = <<>>]]
                  /\ bytes' = IF cfg.stdout THEN bytes
                              ELSE [bytes EXCEPT ![o] = @ \o st.cbuf]
                  /\ UNCHANGED <<pc, err, trip>>
        /\ UNCHANGED <<cfg, args, algorithm, suffix, fs, mainPc, next, wg, sem, hasErrors,
                       inPath, outPath, todo, algoUsed, src, written, outcome, stdinRead,
                       touched, jobsOf, mu, log,
                       logMu>>

-----------------------------------------------------------------------------
(* Stream runs: one file argument is compressed with -algorithm and a      *)
(* level given by the user; when that run has exited with status 0 the     *)
(* tool is started again with -d on the file it wrote.                     *)

Levels == 0..(MaxLevel + 1)

StreamFlags == [cores : {1}, level : Levels, verbose : BOOLEAN,
                decompress : {FALSE}, test : {FALSE},
                stdout : {FALSE}, force : {FALSE}, keep : {FALSE},
                recursive : {FALSE}, algoSet : {TRUE}, sufSet : {FALSE}]

\* The state of main at line 964, after the flags are parsed.
InitStream ==
    /\ cfg \in StreamFlags
    /\ args = <<P_g>>
    /\ algorithm \in Algorithms
    /\ suffix = <<"g", "z">>
    /\ fs = [p \in {P_g} |-> Raw]
    /\ \E d \in BytesUpTo(MaxBytes) :
         /\ bytes = [p \in {P_g} |-> d]
         /\ trip = [n |-> 1, orig |-> d, fault |-> FALSE]
    /\ mainPc = "validate"
    /\ next = 1
    /\ wg = 0
    /\ sem = 0
    /\ hasErrors = FALSE
    /\ mu = 0
    /\ pc = [i \in Workers |-> "idle"]
    /\ InitWorkers

\* The second invocation, aio -d <output of the first>: the flags have their
\* defaults (lines 355-369) but for -d, and main starts over.
Again ==
    /\ mainPc = "exit0"
    /\ trip.n = 1
    /\ trip' = [trip EXCEPT !.n = 2]
    /\ cfg' = [cfg EXCEPT !.decompress = TRUE, !.algoSet = FALSE, !.level = DefaultLevel,
                          !.verbose = FALSE]
    /\ args' = <<args[1] \o <<Dot>> \o getDefaultSuffix(algorithm)>>
    /\ algorithm' = "gzip"
    /\ suffix' = <<"g", "z">>
    /\ mainPc' = "validate"
    /\ next' = 1
    /\ wg' = 0
    /\ sem' = 0
    /\ hasErrors' = FALSE
    /\ mu' = 0
    /\ pc' = [i \in Workers |-> "idle"]
    /\ inPath' = [i \in Workers |-> <<>>]
    /\ outPath' = [i \in Workers |-> <<>>]
    /\ todo' = [i \in Workers |-> <<>>]
    /\ err' = [i \in Workers |-> "nil"]
    /\ algoUsed' = [i \in Workers |-> "none"]
    /\ src' = [i \in Workers |-> NoSrc]
    /\ written' = [i \in Workers |-> FALSE]
    /\ outcome' = {}
    /\ stdinRead' = FALSE
    /\ touched' = [i \in Workers |-> FALSE]
    /\ jobsOf' = [i \in Workers |-> <<>>]
    /\ stream' = [i \in Workers |-> NoStream]
    /\ UNCHANGED <<fs, bytes, log, logMu>>

NextStream ==
    \/ Validate
    \/ Spawn
    \/ WaitExit
    \/ Again
    \/ \E i \in Workers :
          \/ Acquire(i)
          \/ Dispatch(i)
          \/ Detect(i)
          \/ SetSuffix(i)
          \/ Check(i)
          \/ OutStat(i)
          \/ Pipe(i)
          \/ POpen(i)
          \/ PCodec(i)
          \/ PRead(i)
          \/ PWritten(i)
          \/ PClose(i)
          \/ PClosed(i)
          \/ PStats(i)
          \/ CStart(i)
          \/ CRead(i)
          \/ CWrite(i)
          \/ Remove(i)
          \/ Log(i)
          \/ Report(i)
          \/ Release(i)

SpecStream == InitStream /\ [][NextStream]_vars

-----------------------------------------------------------------------------
(* The batch run with the pipe of every job, one pipe operation per step,  *)
(* under fair scheduling of the goroutines: main, one goroutine per        *)
(* argument, and the producer of each job.                                 *)

FairFlags == {c \in [cores : 1..MaxCores, level : {DefaultLevel}, verbose : BOOLEAN,
                     decompress : BOOLEAN, test : {FALSE},
                     stdout : {FALSE}, force : {TRUE}, keep : {FALSE},
                     recursive : {TRUE}, algoSet : {FALSE}, sufSet : {FALSE}] :
                c.verbose = ~c.decompress}

\* The files of these runs: a file, and a directory that holds a file.
FairFS == [p \in {P_ggz, P_d, P_dzgz} |-> InitFS[p]]

\* Their bytes: a file of a format holds the stream of that format for one
\* byte.
FairBytes ==
    [p \in {q \in DOMAIN FairFS : FairFS[q].kind = "file"} |->
        <<Hdr(FairFS[p].fmt), Enc(FairFS[p].fmt, "a"), Trl(FairFS[p].fmt)>>]

\* The argument lists: the file, the directory, or both.
FairArgLists == {l \in {<<P_ggz>>, <<P_d>>, <<P_ggz, P_d>>} : Len(l) <= MaxArgs}

\* The state of main at line 1006, after flag parsing and validation.
InitFair ==
    /\ cfg \in FairFlags
    /\ args \in FairArgLists
    /\ algorithm = "gzip"
    /\ suffix = <<"g", "z">>
    /\ fs = FairFS
    /\ mainPc = "loop"
    /\ next = 1
    /\ wg = 0
    /\ sem = 0
    /\ hasErrors = FALSE
    /\ mu = 0
    /\ pc = [i \in Workers |-> "idle"]
    /\ InitWorkers
    /\ bytes = FairBytes
    /\ trip = NoTrip

\* the steps of main
MainStep == Spawn \/ WaitExit

\* the steps of the goroutine of argument i, the consumer's included
WorkerStep(i) ==
    \/ Acquire(i)
    \/ Dispatch(i)
    \/ WalkStep(i)
    \/ Detect(i)
    \/ SetSuffix(i)
    \/ Check(i)
    \/ OutStat(i)
    \/ Pipe(i)
    \/ CStart(i)
    \/ CRead(i)
    \/ CWrite(i)
    \/ Remove(i)
    \/ Log(i)
    \/ Report(i)
    \/ Release(i)

\* the steps of the producer goroutine of the job of worker i
ProducerStep(i) ==
    \/ POpen(i)
    \/ PCodec(i)
    \/ PRead(i)
    \/ PWritten(i)
    \/ PClose(i)
    \/ PClosed(i)
    \/ PStats(i)

NextFair ==
    \/ MainStep
    \/ \E i \in Workers : WorkerStep(i) \/ ProducerStep(i)

\* The Go scheduler lets every goroutine that can take a step take one.
Fairness ==
    /\ WF_vars(MainStep)
    /\ \A i \in Workers : WF_vars(WorkerStep(i)) /\ WF_vars(ProducerStep(i))

SpecFair == InitFair /\ [][NextFair]_vars /\ Fairness

-----------------------------------------------------------------------------
(* Properties *)

\* positions of a goroutine that holds a slot of sem
InFlight == {"run", "walk", "detect", "suffix", "check", "outstat", "test",
             "start", "copy", "remove", "ret", "flag", "release"}

Failures == {e \in outcome : e[2] = "err"}

\* C1: at any time at most cfg.cores goroutines hold a slot, that is, have
\* started on their argument and not finished; a job beyond that waits at sem.
C1_PoolBound ==
    Cardinality({i \in Workers : pc[i] \in InFlight}) <= cfg.cores

\* a job streams while the pool is full and another goroutine waits for a slot
C1_Witness ==
    /\ Cardinality({i \in Workers : pc[i] \in InFlight}) = cfg.cores
    /\ \E i, j \in Workers : pc[i] = "sem" /\ pc[j] = "copy"

\* C2: without -algorithm, every job decodes with the algorithm of its own
\* input's extension, whatever its siblings do, and in a test run (which
\* changes no file) a well-formed file never fails.
C2_OwnAlgorithm ==
    \A i \in Workers :
        ((cfg.decompress \/ cfg.test) /\ ~cfg.algoSet /\ inPath[i] \notin {<<>>, Stdin})
        => /\ algoUsed[i] # "none"
                => algoUsed[i] = getAlgorithmFromExtension(inPath[i]).algo
           /\ (cfg.test /\ ~cfg.stdout /\ pc[i] = "ret"
               /\ inPath[i] \in {P_ggz, P_xxz, P_dzgz})
                => err[i] = "nil"

\* C3: a job removes its own input only at the end of processFile, after its
\* io.Copy returned without error, with neither -c nor -k, never in test mode
\* and never for stdin, and the job then returns no error.
C3_RemoveOnlyAfterSuccess ==
    [][\A i \in Workers :
          (/\ pc'[i] # pc[i]
           /\ inPath[i] # <<>>
           /\ Exists(inPath[i])
           /\ inPath[i] \notin DOMAIN fs')
          => /\ pc[i] = "remove"
             /\ written[i]
             /\ err[i] = "nil"
             /\ err'[i] = "nil"
             /\ ~cfg.stdout /\ ~cfg.keep /\ ~cfg.test
             /\ inPath[i] # Stdin]_vars

\* a job has written its output and removed its input
C3_Witness ==
    \E i \in Workers :
        /\ pc[i] = "ret" /\ err[i] = "nil" /\ written[i]
        /\ inPath[i] \notin {<<>>, Stdin}
        /\ ~Exists(inPath[i])
        /\ IsFile(outPath[i])

\* the regular files below the directory argument when the run starts
WalkedFiles == {P_dzgz, P_dzggz}

ArgProcessed(f) ==
    IF f = P_d /\ cfg.recursive
    THEN \A p \in WalkedFiles : \E r \in {"ok", "err"} : <<p, r>> \in outcome
    ELSE \E r \in {"ok", "err"} : <<f, r>> \in outcome

\* C4: when main leaves, every argument and every file below a walked
\* directory has been processed to an outcome, whichever of them failed.
C4_NoSiblingSkipped ==
    mainPc # "loop" =>
        \A k \in 1..Len(args) : pc[k] = "done" /\ ArgProcessed(args[k])

\* a recursive run in which one walked file failed and another one succeeded
C4_Witness ==
    /\ mainPc = "exit1"
    /\ cfg.recursive
    /\ \E p, q \in WalkedFiles : <<p, "err">> \in outcome /\ <<q, "ok">> \in outcome

\* C5: the exit status is taken after all goroutines are done, and it is 1
\* exactly when some job or argument failed.
C5_ExitStatus ==
    mainPc # "loop" =>
        /\ \A k \in 1..Len(args) : pc[k] = "done"
        /\ wg = 0
        /\ (mainPc = "exit1") <=> (Failures # {})

\* a run of several jobs, some failed, that exits with status 1
C5_Witness ==
    /\ mainPc = "exit1"
    /\ Cardinality(Failures) >= 1
    /\ Cardinality(outcome) >= 2

\* C6: with -cores 1 the jobs run in argument order without overlap: a job
\* has left the semaphore only when all jobs of earlier arguments are done.
C6_SubmissionOrder ==
    cfg.cores = 1 =>
        \A i, j \in Workers :
            (i < j /\ pc[j] \notin {"idle", "sem"}) => pc[i] = "done"

\* C7: in decompress mode to a file, a job gets an output name exactly when
\* its name ends with "." + suffix and is longer than that, and the output
\* name is the input path without that ending.
C7_StripsExactSuffix ==
    \A i \in Workers :
        (/\ cfg.decompress /\ ~cfg.stdout
         /\ inPath[i] \notin {<<>>, Stdin}
         /\ pc[i] \in {"outstat", "ret"})
        => LET in == inPath[i]
               dsuf == <<Dot>> \o suffix
               name == PathSplit(in).file
           IN  IF pc[i] = "outstat"
               THEN /\ HasSuffix(name, dsuf)
                    /\ Len(name) > Len(dsuf)
                    /\ outPath[i] = SubSeq(in, 1, Len(in) - Len(dsuf))
               ELSE err[i] # "nil"

\* C8: in decompress or test mode a user-given algorithm is the job's
\* algorithm for every input name: the extension decides nothing, so no job
\* fails on detecting it.
C8_UserAlgorithmWins ==
    \A i \in Workers :
        (/\ cfg.algoSet /\ (cfg.decompress \/ cfg.test)
         /\ inPath[i] \notin {<<>>, Stdin}
         /\ pc[i] \notin {"idle", "detect"})
        => /\ err[i] # "detect"
           /\ algorithm = UserAlgorithm

\* C9: no step removes or replaces a directory; a job that finds its output
\* name taken fails and changes nothing without -f or when it is a
\* directory, and with -f removes the file before it goes on to create it.
C9_OverwritePolicy ==
    [][/\ \A p \in DOMAIN fs : fs[p] = Dir => (p \in DOMAIN fs' /\ fs'[p] = Dir)
       /\ \A i \in Workers :
            (pc[i] = "outstat" /\ pc'[i] # "outstat" /\ Exists(outPath[i]))
            => IF ~cfg.force \/ IsDir(outPath[i])
               THEN pc'[i] = "ret" /\ err'[i] # "nil" /\ fs' = fs
               ELSE pc'[i] = "start" /\ outPath[i] \notin DOMAIN fs']_vars

\* with -f, a job has removed the file at its output name and not yet created it
C9_Witness ==
    \E i \in Workers :
        /\ cfg.force
        /\ pc[i] = "start"
        /\ outPath[i] \in DOMAIN InitFS
        /\ ~Exists(outPath[i])

\* C10: the stdin argument is never handed to the pool (its job neither
\* queues for nor holds a slot), it runs alone, and outside test mode standard
\* input is read only when the output is standard output.
C10_StdinBypassesPool ==
    /\ \A k \in 1..Len(args) :
         args[k] = Stdin =>
            /\ pc[k] \notin ({"sem"} \cup InFlight)
            /\ inPath[k] = Stdin => \A j \in Workers \ {k} : pc[j] \notin InFlight
    /\ (stdinRead /\ ~cfg.test) => cfg.stdout

\* C11: a job run with -c together with -S, -f or -k is rejected with an
\* error, and no system call (stat, open, create, remove, read, write) has
\* been made on its input before the rejection.
C11_RejectedBeforeIO ==
    \A i \in Workers :
        (/\ cfg.stdout /\ (cfg.sufSet \/ cfg.force \/ cfg.keep)
         /\ pc[i] = "ret"
         /\ err[i] \notin {"stat", "isdirarg", "walk"})
        => /\ err[i] # "nil"
           /\ ~touched[i]


\* C12: a job that ends with the error of opening or of reading its input
\* leaves no file at its output path.
C12_NoOutputLeftBehind ==
    [][\A i \in Workers :
          (/\ pc[i] # "ret" /\ pc'[i] = "ret"
           /\ err'[i] \in {"open", "read"}
           /\ outPath[i] # <<>>)
          => outPath[i] \notin DOMAIN fs']_vars


\* the number of processFile calls made for path p, by all workers together
JobCount(p) ==
    Cardinality({x \in Workers \X (1..Cardinality(DOMAIN InitFS) + 2) :
                    x[2] <= Len(jobsOf[x[1]]) /\ jobsOf[x[1]][x[2]] = p})

\* C13: when a recursive run ends, every regular file below the directory
\* argument, at any depth, has been processed by exactly one job, every
\* failure has set the failure flag, and no job was run on a file that the
\* run itself created.
C13_WalkCoversOnce ==
    cfg.recursive =>
        /\ \A i \in Workers : \A k \in 1..Len(jobsOf[i]) : jobsOf[i][k] \in DOMAIN InitFS \cup {Stdin}
        /\ mainPc # "loop" =>
             /\ \A p \in WalkedFiles :
                  /\ JobCount(p) = 1
                  /\ \E r \in {"ok", "err"} : <<p, r>> \in outcome
             /\ Failures # {} => hasErrors


\* what a step of a test run leaves alone: the file system, and for every
\* job no output path, no producer and no copy
TestFrame ==
    /\ fs' = fs
    /\ \A i \in Workers : outPath'[i] = <<>> /\ src'[i] = NoSrc /\ ~written'[i]

C20_FlagUnderMutex ==
    [][/\ \A i \in Workers : (pc[i] = "flag" /\ pc'[i] # "flag") => mu = i
       /\ Cardinality({i \in Workers : pc[i] = "flag"}) <= 1]_vars


\* the algorithm that validation took the user's value a for
ValidatedAs(a) == CHOOSE b \in Algorithms : Spelling(b) = ToLower(Spelling(a))

\* C16: once a job selects its codec, the codec is the one of the algorithm
\* that the user's -algorithm value was validated as (so a value without a
\* codec branch of its own never reaches a job), and the suffix of a job is
\* the default suffix of that algorithm.
C16_ValidatedNameDispatched ==
    \A i \in Workers :
        /\ algoUsed[i] # "none" => algoUsed[i] = ValidatedAs(algorithm)
        /\ pc[i] \in {"outstat", "start", "copy", "remove"}
             => suffix = getDefaultSuffix(ValidatedAs(algorithm))

\* The algorithms whose own level scale is not 1..9
OwnScale == {"zstd", "s2", "lz4", "brotli"}

\* C15: for zstd, s2, lz4 and brotli no level from 1 up that the validation
\* of main accepts makes the construction of the compressing writer fail: the
\* producer never closes the pipe with a level error.
C15_AcceptedLevelConstructs ==
    \A i \in Workers :
        (algoUsed[i] \in OwnScale /\ cfg.level >= 1) => stream[i].wclosed # "level"

\* C14: when no I/O operation fails, compressing g with any algorithm at a
\* level from 1 to 9 exits with status 0, and so does decompressing the file
\* it wrote with no option but -d, after which g is a file whose bytes are
\* those it began with.
C14_RoundTrip ==
    /\ (trip.n = 1 /\ cfg.level \in 1..9 /\ ~trip.fault) => mainPc # "exit1"
    /\ (trip.n = 2 /\ ~trip.fault) =>
          /\ mainPc # "exit1"
          /\ mainPc = "exit0" => /\ IsFile(P_g)
                                 /\ fs[P_g] = Raw
                                 /\ bytes[P_g] = trip.orig

\* C18: no statistics line is on os.Stderr for a job that has returned an
\* error.
C18_StatsOnlyOnSuccess ==
    \A l \in log : <<l.name, "err">> \notin outcome

\* The output file of the compress job on the input named n
Artifact(n) == n \o <<Dot>> \o getDefaultSuffix(algorithm)

\* C19: for every statistics line, "in" is the number of bytes of the source,
\* "out" is the number of bytes that went through the pipe, and once the job
\* has returned its output file holds exactly those bytes.
C19_StatsExact ==
    \A l \in log :
        /\ l.in = Len(trip.orig)
        /\ trip.n = 1 =>
              \A i \in Workers :
                  stream[i].name = l.name =>
                      /\ l.out = Len(stream[i].sent)
                      /\ (\E o \in {"ok", "err"} : <<l.name, o>> \in outcome) =>
                            /\ Artifact(l.name) \in DOMAIN bytes
                            /\ bytes[Artifact(l.name)] = stream[i].sent

\* The tiers of the s2 package by compression: the writer without an option
\* is the fastest and compresses least, WriterBetterCompression is the
\* middle tier, WriterBestCompression the highest.
S2Lowest == "fast"
S2Middle == "better"
S2Highest == "best"

\* C24: the s2 writer of a job at a level from 1 up is of the lowest tier when
\* the level is at most 3, of the highest when it is at least 7, and of the
\* middle tier otherwise.
C24_S2Thresholds ==
    \A i \in Workers :
        (stream[i].algo = "s2" /\ cfg.level >= 1) =>
            stream[i].tier = IF cfg.level <= 3 THEN S2Lowest
                             ELSE IF cfg.level >= 7 THEN S2Highest
                             ELSE S2Middle

\* The errors the consumer finds by itself
ConsumerErrors == {"create", "write", "codec"}

\* C23: once the producer has returned after a failure, the write end of the
\* pipe carries the error of that failure, not the end of the stream; and a
\* job whose producer failed on its own (not on a pipe the consumer had
\* closed) never returns nil or a closed-pipe error: it returns the
\* producer's error, unless the consumer failed by itself first.
C23_ProducerErrorReturned ==
    \A i \in Workers :
        LET st == stream[i]
        IN  /\ (st.ppc = "done" /\ st.perr # "nil") => st.wclosed = st.perr
            /\ (st.perr \notin {"nil", "closedpipe"} /\ pc[i] \in {"ret", "flag"}) =>
                  err[i] \in {st.perr} \cup ConsumerErrors

\* a compress job has returned the read error of its producer
C23_Witness ==
    \E i \in Workers :
        /\ ~cfg.decompress
        /\ pc[i] = "ret"
        /\ err[i] = "read"
        /\ stream[i].ppc = "done"
        /\ stream[i].wclosed = "read"

\* the consumer of the job of worker i has left the pipe section of
\* processFile (it has returned, or goes on to the removal)
ConsumerLeft(i) == stream[i].ppc # "none" /\ pc[i] \notin {"start", "copy"}

InLogWrite(i) == pc[i] \in {"flag", "oklog", "vlog"}

\* C21: a worker that is inside a write of a line to os.Stderr holds mu, the
\* one lock that all workers share, and so no two workers are inside such a
\* write at the same time.
C21_LogUnderSharedLock ==
    /\ \A i \in Workers : InLogWrite(i) => mu = i
    /\ Cardinality({i \in Workers : InLogWrite(i)}) <= 1


\* the goroutine of every argument has finished its jobs and released its
\* slot, and main has made its final report (the exit status)
Finished ==
    /\ mainPc \in {"exit0", "exit1"}
    /\ sem = 0
    /\ \A i \in 1..Len(args) : pc[i] = "done"

\* C25: under fair scheduling a run comes to the state in which every job
\* has finished and released its slot and main has made its final report.
C25_JobsFinish == <>Finished

\* a run of two arguments on one slot has come to its report: the directory
\* was walked inside its slot, and the consumer of a job failed while its
\* producer was writing to the pipe
C25_Witness ==
    /\ mainPc = "exit1"
    /\ Len(args) = 2
    /\ cfg.cores = 1
    /\ sem = 0
    /\ \A i \in 1..Len(args) : pc[i] = "done"
    /\ \E i \in 1..Len(args) : args[i] = P_d /\ jobsOf[i] = <<P_dzgz>>
    /\ \E i \in 1..Len(args) : stream[i].ppc = "done" /\ stream[i].perr = "closedpipe"

====
